---- MODULE Spec2Model ----
(***************************************************************************)
(* Model of the bundle synchronizer (deps.sync) and of the builder engine  *)
(* (deps.Builder) of frida/releng.                                         *)
(*                                                                         *)
(* Strings are sequences of tokens, so that str.strip(), str.replace() and *)
(* the suffix slicing of file names are computed rather than assumed.      *)
(* Directories are records [exists, files]; files are records [name, text].*)
(***************************************************************************)
EXTENDS Integers, Sequences, FiniteSets, TLC

\* ------------------------------------------------------------------ bounds
MaxCalls == 3          \* top-level operations (sync calls, build runs) per behaviour
MaxPolls == 3          \* answers 404 the server may give to wait() before another answer
MaxTargets == 3        \* targets on one command line of make

\* --------------------------------------------------------------- constants
Versions == {"1", "2"}
NoVersion == "None"
NoConfig == "None"
SUFFIX == ".frida.in"
TOOLROOT == "@FRIDA_TOOLROOT@"
Whitespace == {"\n", " "}

SetToSeqs(S) == {s \in [1..Cardinality(S) -> S] : \A i, j \in 1..Cardinality(S) : i # j => s[i] # s[j]}
Range(s) == {s[i] : i \in 1..Len(s)}

\* ------------------------------------------------------------ MachineSpec
Linux64 == [os |-> "linux", arch |-> "x86_64", config |-> NoConfig, triplet |-> "None"]
LinuxArm64 == [os |-> "linux", arch |-> "arm64", config |-> NoConfig, triplet |-> "None"]
BuildMachines == {Linux64}
HostMachines == {Linux64, LinuxArm64}

identifier(m) == <<m.os, m.arch>> \o (IF m.config # NoConfig THEN <<m.config>> ELSE <<>>)

os_dash_arch(m) == <<m.os, m.arch>>

toolchain_is_msvc(m) == m.os = "windows" /\ m.config # "mingw"

default_missing(m) ==
    IF m.config = NoConfig /\ toolchain_is_msvc(m) THEN [m EXCEPT !.config = "mt"] ELSE m

adapt_to_windows_host(m, host) ==
    IF identifier(m) = identifier(host) /\ host.triplet # "None" THEN host
    ELSE IF host.os = "windows" /\ host.arch \in {"x86_64", "x86"} THEN host
    ELSE m

maybe_adapt_to_host(m, host) ==
    IF identifier(m) = identifier(host) /\ host.triplet # "None" THEN host
    ELSE IF m.os = "windows" /\ (host.arch \in {"x86_64", "x86"} \/ m.arch = host.arch) THEN host
    ELSE m

\* ------------------------------------------------------------ text helpers
RECURSIVE LStrip(_)
LStrip(s) == IF s # <<>> /\ Head(s) \in Whitespace THEN LStrip(Tail(s)) ELSE s

RECURSIVE RStrip(_)
RStrip(s) == IF s # <<>> /\ s[Len(s)] \in Whitespace THEN RStrip(SubSeq(s, 1, Len(s) - 1)) ELSE s

StripNothing(s) == s

strip(s) == RStrip(LStrip(s))

replace(s, old, new) == [i \in 1..Len(s) |-> IF s[i] = old THEN new ELSE s[i]]

\* --------------------------------------------------------------- the disk
NoDir == [exists |-> FALSE, files |-> {}]
EmptyDir == [exists |-> TRUE, files |-> {}]
NoFile == [exists |-> FALSE, members |-> <<>>]

VersionFileName == <<"VERSION.txt">>

\* A bundle archive for version v: an ordered list of tar members.
BundleMembers(v) ==
    << [name |-> <<"env.txt", SUFFIX>>, text |-> <<"root=", TOOLROOT>>],
       [name |-> VersionFileName, text |-> <<v, "\n">>] >>

BundleNames(bundle) == IF bundle = "TOOLCHAIN" THEN "toolchain" ELSE "sdk"

query_toolchain_prefix(machine) ==
    <<"toolchain">> \o
        (IF machine.os = "windows"
            THEN (IF machine.arch \in {"x86", "x86_64"} THEN <<"windows", "x86">> ELSE os_dash_arch(machine))
            ELSE identifier(machine))

bundle_filename_with_identifier(bundle, machine) ==
    <<BundleNames(bundle)>> \o identifier(machine) \o <<".tar.xz">>

\* lines 969-973: the components of the file name, joined by "-" up to the extension
compute_bundle_filename(bundle, machine) ==
    LET os_arch_config ==
            IF bundle = "TOOLCHAIN" /\ machine.os = "windows"
                THEN (IF machine.arch \in {"x86", "x86_64"} THEN <<"windows", "x86">> ELSE os_dash_arch(machine))
                ELSE identifier(machine)
    IN <<BundleNames(bundle)>> \o os_arch_config \o <<".tar.xz">>

package_outfile(bundle, host) == <<BundleNames(bundle)>> \o identifier(host) \o <<".tar.xz">>

BUNDLE_ROOT == "https://build.frida.re/deps"

\* line 1085 and line 974: BUNDLE_URL.format(version, filename)
BUNDLE_URL(version, filename) == <<BUNDLE_ROOT, "/", version, "/">> \o filename

\* lines 966-975
compute_bundle_parameters(bundle, machine, version) ==
    LET filename == compute_bundle_filename(bundle, machine)
    IN [url |-> BUNDLE_URL(version, filename), filename |-> filename]

\* lines 132-134
query_sdk_prefix(machine) == <<"sdk">> \o identifier(machine)

\* lines 123-128, 137-142 and 179: location.parent / filename, location being a child of cache_dir
local_bundle_path(bundle, machine) ==
    [parent |-> "cache_dir", name |-> compute_bundle_parameters(bundle, machine, "1").filename]

\* lines 604-605 and 628: the path Builder._package writes and build() returns
package_path(bundle, host) == [parent |-> "cache_dir", name |-> package_outfile(bundle, host)]

ArchiveNames ==
    {compute_bundle_filename(b, m) : b \in {"TOOLCHAIN", "SDK"}, m \in BuildMachines \cup HostMachines}
    \cup {package_outfile(b, m) : b \in {"TOOLCHAIN", "SDK"}, m \in HostMachines}

as_posix(prefix) == "/deps/toolchain"

\* ----------------------------------------------------------- env.py
\* Python values with their type, as far as generate_machine_configs tells them apart
MachineValue(m) == [type |-> "MachineSpec", machine |-> m, items |-> <<>>]
DictValue(items) == [type |-> "dict", machine |-> NoConfig, items |-> items]
OtherValue(t) == [type |-> t, machine |-> NoConfig, items |-> <<>>]

\* src/env.py 268-332, the names the model uses
TOOLCHAIN_ENVVARS == {<<"CC">>, <<"CFLAGS">>, <<"LDFLAGS">>}

\* src/env.py 257-260: a name is a sequence of words, "_FOR_BUILD" being one word
build_envvar_to_host(name) ==
    IF name # <<>> /\ name[Len(name)] = "_FOR_BUILD" THEN SubSeq(name, 1, Len(name) - 1) ELSE name

\* src/machine_spec.py 229-232 and the != Python derives from it
machine_ne(a, b) ==
    ~(a.type = "MachineSpec" /\ b.type = "MachineSpec" /\ identifier(a.machine) = identifier(b.machine))

\* src/env.py 78: the dict comprehension; of two entries that get the same name the later one
\* of environ.items() stays
build_environ_of(environ) ==
    LET kept == {i \in 1..Len(environ) : environ[i].key \notin TOOLCHAIN_ENVVARS}
        names == {build_envvar_to_host(environ[i].key) : i \in kept}
        last(n) == CHOOSE i \in kept :
                        /\ build_envvar_to_host(environ[i].key) = n
                        /\ \A j \in kept : build_envvar_to_host(environ[j].key) = n => j <= i
    IN {[key |-> n, value |-> environ[last(n)].value] : n \in names}

\* a dict as the set of its items
items_of(environ) == {environ[i] : i \in 1..Len(environ)}

NoConfigs == [error |-> "none", is_cross_build |-> FALSE, build_environ |-> {}, host_environ |-> {},
              build_for |-> NoConfig, host_for |-> NoConfig, same_object |-> FALSE]

\* src/env.py 66-106.  A machine config is kept as the machine and the environment it was
\* generated from; same_object tells that host_config is build_config.
generate_machine_configs(build_machine, build_sdk_prefix, host_machine, host_sdk_prefix, toolchain_prefix, default_library, environ, call_selected_meson, outdir) ==
    LET is_cross_build == machine_ne(host_machine, build_machine)
    IN IF is_cross_build /\ environ.type # "dict"
          THEN [NoConfigs EXCEPT !.error = "AttributeError", !.is_cross_build = TRUE]
       ELSE IF build_machine.type # "MachineSpec" \/ host_machine.type # "MachineSpec"
          THEN [NoConfigs EXCEPT !.error = "AttributeError", !.is_cross_build = is_cross_build]
       ELSE [error |-> "none",
             is_cross_build |-> is_cross_build,
             build_environ |-> IF is_cross_build THEN build_environ_of(environ.items) ELSE items_of(environ.items),
             host_environ |-> items_of(environ.items),
             build_for |-> build_machine.machine,
             host_for |-> IF is_cross_build THEN host_machine.machine ELSE build_machine.machine,
             same_object |-> ~is_cross_build]

\* src/deps.py 476-488: the call of Builder._prepare, argument by argument
prepare_machine_configs(build, host, menv) ==
    generate_machine_configs(MachineValue(build), MachineValue(host), DictValue(menv),
                             OtherValue("Path"), OtherValue("NoneType"), OtherValue("NoneType"),
                             OtherValue("method"), OtherValue("str"), OtherValue("Path"))

\* src/meson_configure.py 202-211: the call of configure, argument by argument
configure_machine_configs(build, host, menv) ==
    generate_machine_configs(MachineValue(build), MachineValue(host), DictValue(menv),
                             OtherValue("Path"), OtherValue("Path"), OtherValue("Path"),
                             OtherValue("function"), OtherValue("str"), OtherValue("Path"))

VARIABLES
    params,          \* deps.toml: deps_version, bootstrap_version
    bundle,          \* Builder._bundle
    host_machine,    \* Builder._host_machine
    build_machine,   \* Builder._build_machine
    loc,             \* the directory at `location` (the build machine's toolchain prefix)
    staging,         \* the sibling directory location.parent / "_<location.name>"
    cachefiles,      \* archives in location.parent, by file name
    syncPc,          \* position inside sync()
    sf,              \* locals of the running sync() call
    syncOut,         \* how the last sync() call ended
    calls,           \* operations started so far
    buildPc,         \* position inside Builder.build()
    bf,              \* locals of the running build(): packages, deps_for_build_machine, loop position
    manifests,       \* manifest files under _<bundle>.out/<machine>/manifest
    builddirs,       \* build directories under _<bundle>.tmp
    sourcedirs,      \* checkouts under workdir
    log,             \* child processes and steps of the current (or last) build() run, in order
    buildOut,        \* how the last build() run ended
    completed,       \* history: build-driver steps that exited 0 since the prefix was last wiped
    builtBefore,     \* history: pairs whose manifest an earlier run wrote; stale once a later prepare wiped
    rs,              \* package resolution on its own: the arguments and the outcome of lines 336-348
    mq,              \* a query on machine specs and bundle names, and its answers
    pk,              \* Builder._package on its own: the host prefix, the staged tree, the archive
    wt,              \* wait(): position, requests issued, time slept, the last answer
    mk,              \* make(): the targets left, the pending compile options, the meson commands issued
    rl               \* roll(): position, the remote stores, deps.toml's versions, what was run

confVars == <<params, bundle, host_machine, build_machine, rs, mq, pk, wt, mk, rl>>
syncVars == <<loc, staging, syncPc, sf, syncOut>>
buildVars == <<buildPc, bf, manifests, builddirs, sourcedirs, log, buildOut, completed, builtBefore>>
vars == <<params, bundle, host_machine, build_machine, loc, staging, cachefiles,
          syncPc, sf, syncOut, calls,
          buildPc, bf, manifests, builddirs, sourcedirs, log, buildOut, completed, builtBefore,
          rs, mq, pk, wt, mk, rl>>

\* ------------------------------------------------------------ deps.toml
Dep(i, fm, w) == [identifier |-> i, for_machine |-> fm, when |-> w]
Pkg(deps, scope, w) == [dependencies |-> deps, scope |-> scope, when |-> w]

\* a is needed by b at build time, c (the toolchain seed) needs b and, on Windows hosts, a
Packages ==
    [a |-> Pkg({}, "None", "None"),
     b |-> Pkg({Dep("a", "build", "None")}, "None", "None"),
     c |-> Pkg({Dep("b", "host", "None"), Dep("a", "host", "machine.os == 'windows'")}, "toolchain", "None")]

PackageSets == {Packages}
PackageIds == {"a", "b", "c"}

\* what `meson introspect --installed` reports for a package, relative to the prefix
InstalledPaths(p) ==
    CASE p = "a" -> {"lib/liba.a", "include/a.h"}
      [] p = "b" -> {"lib/libb.a"}
      [] OTHER -> {"bin/c"}

\* the ordering of str on the paths above
PathRank(path) ==
    CASE path = "bin/c" -> 1
      [] path = "include/a.h" -> 2
      [] path = "lib/liba.a" -> 3
      [] OTHER -> 4

\* ------------------------------------------------------------- Builder
\* lines 428-436
evaluate_condition(cond) ==
    CASE cond = "None" -> TRUE
      [] cond = "machine.os == 'windows'" -> host_machine.os = "windows"
      [] cond = "bundle is Bundle.SDK" -> bundle = "SDK"
      [] OTHER -> FALSE

\* lines 401-406: the dependencies of a package that survive their `when`
resolved_dependencies(i) == {dep \in params.packages[i].dependencies : evaluate_condition(dep.when)}
dep_ids(i) == {dep.identifier : dep \in resolved_dependencies(i)}

\* lines 336-337
all_packages == {i \in DOMAIN params.packages : evaluate_condition(params.packages[i].when)}

\* lines 408-426: everything reached from the top-level packages; a reached identifier
\* outside all_packages makes all_packages[identifier] raise KeyError
RECURSIVE reach(_)
reach(S) ==
    LET new == UNION {dep_ids(i) : i \in S \cap all_packages} \ S
    IN IF new = {} THEN S ELSE reach(S \cup new)

\* lines 998-1001: graphlib.TopologicalSorter.static_order.  Nodes are the given packages and
\* everything they name as a dependency; the sorter yields the nodes layer by layer (all nodes
\* whose predecessors were yielded), in an order inside a layer that depends on dict and set
\* iteration; with a cycle it yields nothing and raises CycleError.
graph_nodes(pkgs) == pkgs \cup UNION {dep_ids(i) : i \in pkgs}

no_preds(pkgs, n) == {}

graph_preds(pkgs, n) == IF n \in pkgs THEN dep_ids(n) ELSE {}

RECURSIVE layered_orders(_, _, _)
layered_orders(pkgs, yielded, remaining) ==
    IF remaining = {} THEN {<<>>}
    ELSE LET ready == {n \in remaining : graph_preds(pkgs, n) \subseteq yielded}
         IN IF ready = {} THEN {}
            ELSE {first \o rest : first \in SetToSeqs(ready),
                                  rest \in layered_orders(pkgs, yielded \cup ready, remaining \ ready)}

any_orders(pkgs) == SetToSeqs(graph_nodes(pkgs))

iterate_package_ids_in_dependency_order(pkgs) == layered_orders(pkgs, {}, graph_nodes(pkgs))

OnlyChoices == {[given |-> FALSE, ids |-> {}]} \cup {[given |-> TRUE, ids |-> S] : S \in (SUBSET PackageIds) \ {{}}}
ExcludeChoices == SUBSET PackageIds

\* lines 338-345, before the exclusion
toplevel_packages(only) ==
    IF only.given THEN only.ids
    ELSE IF bundle = "TOOLCHAIN" THEN {i \in all_packages : params.packages[i].scope = "toolchain"}
    ELSE {i \in all_packages : params.packages[i].scope = "None"}

select_toplevel_only(only, excluded) == [error |-> "none", ids |-> toplevel_packages(only) \ excluded]

\* lines 338-346: "KeyError" or the selected identifiers
select_packages(only, excluded) ==
    LET top == toplevel_packages(only)
        closed == IF only.given \/ bundle = "TOOLCHAIN" THEN reach(top) ELSE top
    IN IF ~(closed \subseteq all_packages)
          THEN [error |-> "KeyError", ids |-> {}]
          ELSE [error |-> "none", ids |-> closed \ excluded]

prefix_of(role) == identifier(IF role = "host" THEN host_machine ELSE build_machine)

ManifestExists(pkg, role) == \E m \in manifests : m.machine = prefix_of(role) /\ m.pkg = pkg

always_build(pkg, role) == "build"

\* lines 517-518
manifest_action(pkg, role) == IF ManifestExists(pkg, role) THEN "skip" ELSE "build"

meson_unchecked == FALSE

\* lines 549-552: meson_kwargs["check"]
meson_check == TRUE

RECURSIVE join(_, _)
join(lines, sep) ==
    IF lines = <<>> THEN <<>>
    ELSE IF Len(lines) = 1 THEN lines
    ELSE <<Head(lines), sep>> \o join(Tail(lines), sep)

unsorted_text(lines) == join(lines, "\n") \o <<"\n">>

\* lines 585-588: sort, join, trailing newline
manifest_text(lines) == join(SortSeq(lines, LAMBDA x, y : PathRank(x) < PathRank(y)), "\n") \o <<"\n">>

Event(kind, pkg, role, ok) == [kind |-> kind, pkg |-> pkg, role |-> role, ok |-> ok]

ManifestsWritten(l) ==
    {[machine |-> prefix_of(l[i].role), pkg |-> l[i].pkg, stale |-> FALSE] :
        i \in {j \in 1..Len(l) : l[j].kind = "manifest"}}

\* the pairs of earlier runs, once the run logged in l is one of them
EarlierRuns(l) ==
    {b \in builtBefore : ~\E n \in ManifestsWritten(l) : n.machine = b.machine /\ n.pkg = b.pkg}
        \cup ManifestsWritten(l)

\* --------------------------------------------------------------- sync()
location == query_toolchain_prefix(build_machine)

HasFile(dir, name) == \E f \in dir.files : f.name = name
FileText(dir, name) == (CHOOSE f \in dir.files : f.name = name).text

\* lines 168-173: the version recorded in the tree, "unreadable" when read_text raises
cached_version(dir) ==
    IF HasFile(dir, VersionFileName) THEN strip(FileText(dir, VersionFileName)) ELSE <<"unreadable">>

IdleBuild == [packages |-> <<>>, deps_for_build_machine |-> {}, idx |-> 0, machines |-> <<>>, toolchain_state |-> "none"]
NoBuildOut == [done |-> FALSE, ret |-> "none"]

NoSnapshot == [loc |-> NoDir, staging |-> NoDir, cachefiles |-> [n \in ArchiveNames |-> NoFile]]

initial_state_modified == "MODIFIED"

\* line 160
initial_state == "PRISTINE"

\* The locals of sync (version, state, archive, archive_is_temporary), the pending exception, and
\* what is observed of the call: requests issued and the HTTP status, whether the temporary
\* archive of this call is on disk (tmpLive), whether this call created the staging directory,
\* the disk at call time (pre), and whether the operation just before was a sync of the same
\* location that returned (prevOk, prevVersion).
IdleFrame ==
    [caller |-> "none", version |-> NoVersion, state |-> "PRISTINE", archive |-> <<>>,
     archive_is_temporary |-> "unset", exc |-> "none", requests |-> 0, status |-> 0,
     tmpLive |-> FALSE, stagingMade |-> FALSE, pre |-> NoSnapshot,
     prevOk |-> FALSE, prevVersion |-> NoVersion]

NoOut == [done |-> FALSE, ret |-> "none", frame |-> IdleFrame, post |-> NoSnapshot]

Snapshot == [loc |-> loc, staging |-> staging, cachefiles |-> cachefiles]

NewFrame(caller, version) ==
    [IdleFrame EXCEPT !.caller = caller,
                      !.version = IF version = NoVersion THEN params.deps_version ELSE version,
                      !.state = initial_state,
                      !.pre = Snapshot,
                      !.prevOk = syncOut.done /\ syncOut.ret \in {"Pristine", "Modified"},
                      !.prevVersion = syncOut.frame.version]

\* sync() ends: returns ret or raises ret
SyncExit(ret, frame, l, s) ==
    /\ syncPc' = "idle"
    /\ sf' = IdleFrame
    /\ syncOut' = [done |-> TRUE, ret |-> ret, frame |-> frame,
                   post |-> [loc |-> l, staging |-> s, cachefiles |-> cachefiles]]

\* lines 155-165, called by the user (deps.py sync, ensure_toolchain from configure)
SyncCall ==
    /\ syncPc = "idle"
    /\ buildPc = "idle"
    /\ calls < MaxCalls
    /\ \E v \in Versions \cup {NoVersion} :
        sf' = NewFrame("user", v)
    /\ syncPc' = "check"
    /\ syncOut' = NoOut
    /\ calls' = calls + 1
    /\ log' = <<>>
    /\ buildOut' = NoBuildOut
    /\ builtBefore' = EarlierRuns(log)
    /\ UNCHANGED <<confVars, loc, staging, cachefiles,
                   buildPc, bf, manifests, builddirs, sourcedirs, completed>>

\* lines 167-175
SyncCheckVersion ==
    /\ syncPc = "check"
    /\ IF loc.exists
          THEN IF cached_version(loc) = <<sf.version>>
                  THEN /\ SyncExit("Pristine", sf, loc, staging)
                       /\ UNCHANGED loc
                  ELSE /\ loc' = NoDir
                       /\ sf' = [sf EXCEPT !.state = "MODIFIED"]
                       /\ syncPc' = "locate"
                       /\ UNCHANGED syncOut
          ELSE /\ syncPc' = "locate"
               /\ UNCHANGED <<loc, sf, syncOut>>
    /\ UNCHANGED <<confVars, buildVars, staging, cachefiles, calls>>

SyncAlwaysDownload ==
    /\ syncPc = "locate"
    /\ syncPc' = "download"
    /\ UNCHANGED <<confVars, buildVars, loc, staging, cachefiles, sf, syncOut, calls>>

\* lines 177-188
SyncLocateArchive ==
    /\ syncPc = "locate"
    /\ LET local_bundle == cachefiles[compute_bundle_filename("TOOLCHAIN", build_machine)]
       IN IF local_bundle.exists
             THEN /\ sf' = [sf EXCEPT !.archive = local_bundle.members, !.archive_is_temporary = "no"]
                  /\ syncPc' = "staging"
             ELSE /\ syncPc' = "download"
                  /\ UNCHANGED sf
    /\ UNCHANGED <<confVars, buildVars, loc, staging, cachefiles, syncOut, calls>>

HTTPErrorsToBundleNotFound(code) == "BundleNotFoundError"

\* lines 196-199
HTTPErrorToException(code) == IF code = 404 THEN "BundleNotFoundError" ELSE "HTTPError"

\* lines 189-199: urlopen answers 200, 404 or 500, or the copy into the temporary file fails
SyncDownload ==
    /\ syncPc = "download"
    /\ \E outcome \in {"ok", "copyfail", "404", "500"} :
        LET f == [sf EXCEPT !.requests = 1] IN
        CASE outcome = "ok" ->
                /\ sf' = [f EXCEPT !.status = 200, !.tmpLive = TRUE, !.archive = BundleMembers(sf.version),
                                   !.archive_is_temporary = "yes"]
                /\ syncPc' = "staging"
                /\ UNCHANGED syncOut
          [] outcome = "copyfail" ->
                /\ SyncExit("CopyError", [f EXCEPT !.status = 200, !.tmpLive = TRUE], loc, staging)
          [] outcome = "404" ->
                /\ SyncExit(HTTPErrorToException(404), [f EXCEPT !.status = 404], loc, staging)
          [] outcome = "500" ->
                /\ SyncExit(HTTPErrorToException(500), [f EXCEPT !.status = 500], loc, staging)
    /\ UNCHANGED <<confVars, buildVars, loc, staging, cachefiles, calls>>

\* lines 202-205
SyncMakeStaging ==
    /\ syncPc = "staging"
    /\ staging' = EmptyDir
    /\ sf' = [sf EXCEPT !.stagingMade = TRUE]
    /\ syncPc' = "extract"
    /\ UNCHANGED <<confVars, buildVars, loc, cachefiles, syncOut, calls>>

SyncExtractIntoLocation ==
    /\ syncPc = "extract"
    /\ \E k \in 0..Len(sf.archive) :
        /\ loc' = [exists |-> TRUE, files |-> {sf.archive[i] : i \in 1..k}]
        /\ IF k = Len(sf.archive)
              THEN /\ syncPc' = "rewrite"
                   /\ UNCHANGED sf
              ELSE /\ syncPc' = "finally"
                   /\ sf' = [sf EXCEPT !.exc = "ExtractError"]
    /\ UNCHANGED <<confVars, buildVars, staging, cachefiles, syncOut, calls>>

\* lines 207-208: extractall writes the members in order and may fail after any of them
SyncExtract ==
    /\ syncPc = "extract"
    /\ \E k \in 0..Len(sf.archive) :
        /\ staging' = [staging EXCEPT !.files = {sf.archive[i] : i \in 1..k}]
        /\ IF k = Len(sf.archive)
              THEN /\ syncPc' = "rewrite"
                   /\ UNCHANGED sf
              ELSE /\ syncPc' = "finally"
                   /\ sf' = [sf EXCEPT !.exc = "ExtractError"]
    /\ UNCHANGED <<confVars, buildVars, loc, cachefiles, syncOut, calls>>

IsTemplate(f) == Len(f.name) > 1 /\ f.name[Len(f.name)] = SUFFIX

RenameOnly(f) == [name |-> SubSeq(f.name, 1, Len(f.name) - 1), text |-> f.text]

\* lines 213-216: one template file rewritten and renamed
RewriteFile(f) ==
    [name |-> SubSeq(f.name, 1, Len(f.name) - 1), text |-> replace(f.text, TOOLROOT, as_posix(location))]

RewriteAll(files, chosen) == {IF f \in chosen THEN RewriteFile(f) ELSE f : f \in files}

\* lines 210-216: the loop over the templates may fail before any file
SyncRewrite ==
    /\ syncPc = "rewrite"
    /\ LET templates == {f \in staging.files : IsTemplate(f)} IN
       \E chosen \in SUBSET templates :
        /\ staging' = [staging EXCEPT !.files = RewriteAll(staging.files, chosen)]
        /\ IF chosen = templates
              THEN /\ syncPc' = "rename"
                   /\ UNCHANGED sf
              ELSE /\ syncPc' = "finally"
                   /\ sf' = [sf EXCEPT !.exc = "RewriteError"]
    /\ UNCHANGED <<confVars, buildVars, loc, cachefiles, syncOut, calls>>

\* line 218
SyncRename ==
    /\ syncPc = "rename"
    /\ \/ /\ loc' = staging
          /\ staging' = NoDir
          /\ UNCHANGED sf
       \/ /\ sf' = [sf EXCEPT !.exc = "RenameError"]
          /\ UNCHANGED <<loc, staging>>
    /\ syncPc' = "finally"
    /\ UNCHANGED <<confVars, buildVars, cachefiles, syncOut, calls>>

\* lines 219-223
SyncFinally ==
    /\ syncPc = "finally"
    /\ LET unlink == sf.archive_is_temporary = "yes"
           f == IF unlink THEN [sf EXCEPT !.tmpLive = FALSE] ELSE sf
       IN SyncExit(IF sf.exc # "none" THEN sf.exc
                      ELSE IF sf.state = "MODIFIED" THEN "Modified" ELSE "Pristine", f, loc, staging)
    /\ UNCHANGED <<confVars, buildVars, loc, staging, cachefiles, calls>>

\* ------------------------------------------------------ Builder.build()
\* build() ends: returns the artifact (ret = "ok") or raises ret
BuildExit(ret, newlog) ==
    /\ buildPc' = "idle"
    /\ bf' = IdleBuild
    /\ buildOut' = [done |-> TRUE, ret |-> ret]
    /\ log' = newlog

\* where the loop of lines 357-370 and 516 goes after one machine of a package is dealt with
AfterMachine(frame) ==
    IF Len(frame.machines) > 1 THEN <<"machine", [frame EXCEPT !.machines = Tail(frame.machines)]>>
    ELSE IF frame.idx < Len(frame.packages) THEN <<"clone", [frame EXCEPT !.machines = <<>>, !.idx = frame.idx + 1]>>
    ELSE <<"package", [frame EXCEPT !.machines = <<>>]>>

\* lines 326-350
BuildStart ==
    /\ buildPc = "idle"
    /\ syncPc = "idle"
    /\ calls < MaxCalls
    /\ calls' = calls + 1
    /\ \E only \in OnlyChoices, excluded \in ExcludeChoices :
        LET selection == select_packages(only, excluded)
            orders == iterate_package_ids_in_dependency_order(selection.ids)
        IN IF selection.error # "none"
              THEN BuildExit(selection.error, <<>>)
           ELSE IF orders = {}
              THEN BuildExit("CycleError", <<>>)
           ELSE \E order \in orders :
                  IF ~(Range(order) \subseteq selection.ids)
                     THEN BuildExit("KeyError", <<>>)
                     ELSE /\ bf' = [IdleBuild EXCEPT
                                      !.packages = order,
                                      !.deps_for_build_machine =
                                          {dep.identifier : dep \in
                                              {d \in UNION {resolved_dependencies(i) : i \in Range(order)} :
                                                  d.for_machine = "build"}}]
                          /\ buildPc' = "prepare"
                          /\ log' = <<>>
                          /\ buildOut' = NoBuildOut
    /\ builtBefore' = EarlierRuns(log)
    /\ syncOut' = NoOut
    /\ UNCHANGED <<confVars, loc, staging, syncPc, sf, cachefiles, manifests, builddirs, sourcedirs, completed>>

never_stale(toolchain_state) == FALSE

\* lines 443-444: the build state is wiped when the toolchain was replaced
stale_build_state(toolchain_state) == toolchain_state = "Modified"

\* lines 438-442: _prepare calls ensure_toolchain, which calls sync with bootstrap_version
BuildPrepare ==
    /\ buildPc = "prepare"
    /\ sf' = NewFrame("prepare", params.bootstrap_version)
    /\ syncPc' = "check"
    /\ syncOut' = NoOut
    /\ buildPc' = "sync"
    /\ UNCHANGED <<confVars, loc, staging, cachefiles, calls,
                   bf, manifests, builddirs, sourcedirs, log, buildOut, completed, builtBefore>>

\* lines 443-490 and 509-513: after the sync returned; then the machine configs are generated
\* (lines 479-488). The positional arguments of that call do not follow the parameter order
\* of env.generate_machine_configs (src/env.py 66-74), so the call is modelled by both of its
\* outcomes: it raises ("AttributeError") or it returns and the build goes on.
BuildPrepareResume ==
    /\ buildPc = "sync"
    /\ syncPc = "idle"
    /\ syncOut.done
    /\ IF syncOut.ret \notin {"Pristine", "Modified"}
          THEN /\ BuildExit(syncOut.ret, log)
               /\ UNCHANGED <<manifests, builddirs, completed, builtBefore>>
          ELSE LET wipe == stale_build_state(syncOut.ret)
                   before == IF wipe THEN {[b EXCEPT !.stale = TRUE] : b \in builtBefore} ELSE builtBefore
               IN /\ manifests' = IF wipe THEN {} ELSE manifests
                  /\ builddirs' = IF wipe THEN {} ELSE builddirs
                  /\ completed' = IF wipe THEN {} ELSE completed
                  /\ builtBefore' = before
                  /\ \/ BuildExit("AttributeError", log)
                     \/ /\ bf' = [bf EXCEPT !.idx = 1, !.toolchain_state = syncOut.ret]
                        /\ buildPc' = IF bf.packages = <<>> THEN "package" ELSE "clone"
                        /\ UNCHANGED <<log, buildOut>>
    /\ UNCHANGED <<confVars, syncVars, cachefiles, calls, sourcedirs>>

\* lines 358-367 and 492-507: the checkout is reused or cloned; git may fail
BuildClone ==
    /\ buildPc = "clone"
    /\ LET pkg == bf.packages[bf.idx] IN
        /\ sourcedirs' = sourcedirs \cup {pkg}
        /\ \/ /\ log' = Append(log, Event("clone", pkg, "none", TRUE))
              /\ bf' = [bf EXCEPT !.machines =
                            <<"host">> \o (IF pkg \in bf.deps_for_build_machine THEN <<"build">> ELSE <<>>)]
              /\ buildPc' = "machine"
              /\ UNCHANGED buildOut
           \/ BuildExit("CalledProcessError", Append(log, Event("clone", pkg, "none", FALSE)))
    /\ UNCHANGED <<confVars, syncVars, cachefiles, calls, manifests, builddirs, completed, builtBefore>>

\* lines 515-524
BuildCheckManifest ==
    /\ buildPc = "machine"
    /\ LET pkg == bf.packages[bf.idx]
           role == Head(bf.machines)
           action == manifest_action(pkg, role)
       IN /\ log' = Append(log, Event(action, pkg, role, TRUE))
          /\ IF action = "build"
                THEN /\ buildPc' = "setup"
                     /\ UNCHANGED bf
                ELSE /\ buildPc' = AfterMachine(bf)[1]
                     /\ bf' = AfterMachine(bf)[2]
    /\ UNCHANGED <<confVars, syncVars, cachefiles, calls, manifests, builddirs, sourcedirs, buildOut,
                   completed, builtBefore>>

\* lines 528-571: the build directory is removed, then `meson setup` runs
BuildSetup ==
    /\ buildPc = "setup"
    /\ LET pkg == bf.packages[bf.idx]
           role == Head(bf.machines)
           key == [machine |-> prefix_of(role), pkg |-> pkg]
       IN /\ builddirs' = builddirs \cup {key}
          /\ \/ /\ log' = Append(log, Event("setup", pkg, role, TRUE))
                /\ completed' = (completed \ {[machine |-> key.machine, pkg |-> pkg, step |-> "install"]})
                                    \cup {[machine |-> key.machine, pkg |-> pkg, step |-> "setup"]}
                /\ buildPc' = "install"
                /\ UNCHANGED <<bf, buildOut>>
             \/ /\ completed' = completed \ {[machine |-> key.machine, pkg |-> pkg, step |-> s] : s \in {"setup", "install"}}
                /\ IF meson_check
                      THEN BuildExit("CalledProcessError", Append(log, Event("setup", pkg, role, FALSE)))
                      ELSE /\ log' = Append(log, Event("setup", pkg, role, FALSE))
                           /\ buildPc' = "install"
                           /\ UNCHANGED <<bf, buildOut>>
    /\ UNCHANGED <<confVars, syncVars, cachefiles, calls, manifests, sourcedirs, builtBefore>>

\* lines 573-575
BuildInstall ==
    /\ buildPc = "install"
    /\ LET pkg == bf.packages[bf.idx]
           role == Head(bf.machines)
       IN \/ /\ log' = Append(log, Event("install", pkg, role, TRUE))
             /\ completed' = completed \cup {[machine |-> prefix_of(role), pkg |-> pkg, step |-> "install"]}
             /\ buildPc' = "manifest"
             /\ UNCHANGED <<bf, buildOut>>
          \/ /\ UNCHANGED completed
             /\ IF meson_check
                   THEN BuildExit("CalledProcessError", Append(log, Event("install", pkg, role, FALSE)))
                   ELSE /\ log' = Append(log, Event("install", pkg, role, FALSE))
                        /\ buildPc' = "manifest"
                        /\ UNCHANGED <<bf, buildOut>>
    /\ UNCHANGED <<confVars, syncVars, cachefiles, calls, manifests, builddirs, sourcedirs, builtBefore>>

\* lines 577-588: introspect lists the installed files in some order (its exit status is not
\* checked: unparsable output makes json.loads raise); the manifest is written in one write_text
BuildWriteManifest ==
    /\ buildPc = "manifest"
    /\ LET pkg == bf.packages[bf.idx]
           role == Head(bf.machines)
       IN \/ \E install_locations \in SetToSeqs(InstalledPaths(pkg)) :
                /\ manifests' = {m \in manifests : ~(m.machine = prefix_of(role) /\ m.pkg = pkg)}
                                  \cup {[machine |-> prefix_of(role), pkg |-> pkg,
                                         text |-> manifest_text(install_locations)]}
                /\ log' = Append(log, Event("manifest", pkg, role, TRUE))
                /\ buildPc' = AfterMachine(bf)[1]
                /\ bf' = AfterMachine(bf)[2]
                /\ UNCHANGED buildOut
          \/ /\ BuildExit("JSONDecodeError", Append(log, Event("introspect", pkg, role, FALSE)))
             /\ UNCHANGED manifests
    /\ UNCHANGED <<confVars, syncVars, cachefiles, calls, builddirs, sourcedirs, completed, builtBefore>>

\* lines 373 and 604-628: the staged tree with VERSION.txt = deps_version is assembled
BuildPackage ==
    /\ buildPc = "package"
    /\ cachefiles' = [cachefiles EXCEPT ![package_outfile(bundle, host_machine)] =
                        [exists |-> TRUE, members |-> BundleMembers(params.deps_version)]]
    /\ BuildExit("ok", Append(log, Event("package", "none", "host", TRUE)))
    /\ UNCHANGED <<confVars, syncVars, calls, manifests, builddirs, sourcedirs, completed, builtBefore>>

\* ------------------------------------------------------------------ system
NoOutcome == [error |-> "none", selecting |-> FALSE, selected |-> {}, order |-> <<>>]
NoResolution == [done |-> FALSE, only |-> [given |-> FALSE, ids |-> {}], excluded |-> {}, out |-> NoOutcome]
NoQuery == [kind |-> "none"]
NoPackaging == [pc |-> "idle", prefix |-> {}, toolchain |-> {}, staged |-> {}, original |-> {}, archive |-> {}]
NoWait == [pc |-> "idle"]
NoMake == [pc |-> "idle"]
NoRoll == [pc |-> "idle"]

\* the operations modelled on their own are not running
OthersIdle == pk = NoPackaging /\ wt = NoWait /\ mk = NoMake /\ rl = NoRoll

\* nothing on disk, nothing running
SystemIdle ==
    /\ loc = NoDir
    /\ staging = NoDir
    /\ cachefiles = [n \in ArchiveNames |-> NoFile]
    /\ syncPc = "idle"
    /\ sf = IdleFrame
    /\ syncOut = NoOut
    /\ calls = 0
    /\ buildPc = "idle"
    /\ bf = IdleBuild
    /\ manifests = {}
    /\ builddirs = {}
    /\ sourcedirs = {}
    /\ log = <<>>
    /\ buildOut = NoBuildOut
    /\ completed = {}
    /\ builtBefore = {}

Init ==
    /\ params \in [deps_version : {"2"}, bootstrap_version : Versions, packages : PackageSets]
    /\ bundle \in {"TOOLCHAIN", "SDK"}
    /\ \E h \in HostMachines, b \in BuildMachines :
        /\ host_machine = default_missing(h)
        /\ build_machine = maybe_adapt_to_host(default_missing(b), default_missing(h))
    /\ rs = NoResolution
    /\ mq = NoQuery
    /\ OthersIdle
    /\ SystemIdle

Next ==
    \/ SyncCall
    \/ SyncCheckVersion
    \/ SyncLocateArchive
    \/ SyncDownload
    \/ SyncMakeStaging
    \/ SyncExtract
    \/ SyncRewrite
    \/ SyncRename
    \/ SyncFinally
    \/ BuildStart
    \/ BuildPrepare
    \/ BuildPrepareResume
    \/ BuildClone
    \/ BuildCheckManifest
    \/ BuildSetup
    \/ BuildInstall
    \/ BuildWriteManifest
    \/ BuildPackage

Spec == Init /\ [][Next]_vars

\* ----------------------------------------------- a cross build of a chain
\* c needs b on the build machine, and b needs a
ChainPackages ==
    [a |-> Pkg({}, "None", "None"),
     b |-> Pkg({Dep("a", "host", "None")}, "None", "None"),
     c |-> Pkg({Dep("b", "build", "None")}, "None", "None")]

\* the SDK for linux-arm64, built on linux-x86_64
InitCross ==
    /\ params = [deps_version |-> "2", bootstrap_version |-> "1", packages |-> ChainPackages]
    /\ bundle = "SDK"
    /\ host_machine = LinuxArm64
    /\ build_machine = maybe_adapt_to_host(Linux64, LinuxArm64)
    /\ rs = NoResolution
    /\ mq = NoQuery
    /\ OthersIdle
    /\ SystemIdle

SpecCross == InitCross /\ [][Next]_vars

\* ------------------------------------------ package resolution on its own
Windows64 == [os |-> "windows", arch |-> "x86_64", config |-> "mt", triplet |-> "None"]

\* a and b depend on each other
CyclicPackages ==
    [a |-> Pkg({Dep("b", "host", "None")}, "None", "None"),
     b |-> Pkg({Dep("a", "host", "None")}, "None", "None"),
     c |-> Pkg({Dep("a", "host", "None")}, "toolchain", "None")]

\* a names z, which deps.toml does not define
UnknownDepPackages ==
    [a |-> Pkg({Dep("z", "host", "None")}, "None", "None"),
     b |-> Pkg({}, "None", "None"),
     c |-> Pkg({Dep("a", "host", "None")}, "toolchain", "None")]

\* a is only buildable for Windows hosts, b needs it everywhere
ConditionalPackages ==
    [a |-> Pkg({}, "None", "machine.os == 'windows'"),
     b |-> Pkg({Dep("a", "host", "None")}, "None", "None"),
     c |-> Pkg({Dep("b", "build", "None")}, "toolchain", "None")]

\* the unscoped b needs a, which is in the toolchain scope
ScopedDepPackages ==
    [a |-> Pkg({}, "toolchain", "None"),
     b |-> Pkg({Dep("a", "host", "None")}, "None", "None"),
     c |-> Pkg({}, "None", "None")]

ResolverPackageSets ==
    {Packages, CyclicPackages, UnknownDepPackages, ConditionalPackages, ScopedDepPackages}
ResolverHosts == {Linux64, Windows64}

\* lines 336-348: the possible outcomes of the selection and of the ordering.  `selecting` tells
\* that the exception left lines 339-343, before selected_packages was bound.
resolve(only, excluded) ==
    LET selection == select_packages(only, excluded)
        orders == iterate_package_ids_in_dependency_order(selection.ids)
    IN IF selection.error # "none"
          THEN {[error |-> selection.error, selecting |-> TRUE, selected |-> {}, order |-> <<>>]}
       ELSE IF orders = {}
          THEN {[error |-> "CycleError", selecting |-> FALSE, selected |-> selection.ids, order |-> <<>>]}
       ELSE {[error |-> IF Range(order) \subseteq selection.ids THEN "none" ELSE "KeyError",
              selecting |-> FALSE, selected |-> selection.ids, order |-> order] : order \in orders}

Resolve ==
    /\ ~rs.done
    /\ \E only \in OnlyChoices, excluded \in ExcludeChoices :
        \E out \in resolve(only, excluded) :
            rs' = [done |-> TRUE, only |-> only, excluded |-> excluded, out |-> out]
    /\ UNCHANGED <<params, bundle, host_machine, build_machine, mq, pk, wt, mk, rl, loc, staging,
                   cachefiles, syncPc, sf, syncOut, calls, buildPc, bf, manifests, builddirs,
                   sourcedirs, log, buildOut, completed, builtBefore>>

InitResolver ==
    /\ params \in [deps_version : {"2"}, bootstrap_version : {"1"}, packages : ResolverPackageSets]
    /\ bundle \in {"TOOLCHAIN", "SDK"}
    /\ host_machine \in ResolverHosts
    /\ build_machine = Linux64
    /\ rs = NoResolution
    /\ mq = NoQuery
    /\ OthersIdle
    /\ SystemIdle

NextResolver == Resolve

SpecResolver == InitResolver /\ [][NextResolver]_vars

\* ------------------------------------- machine specs and bundle names alone
QueryMachines ==
    [os : {"linux", "windows", "macos", "qnx"}, arch : {"x86", "x86_64", "arm64", "armhf"},
     config : {NoConfig, "mt", "mingw", "musl"}, triplet : {"None"}]

AdaptMachines ==
    [os : {"linux", "windows"}, arch : {"x86", "x86_64", "arm64"},
     config : {NoConfig, "mt"}, triplet : {"None", "x86_64-w64-mingw32"}]

\* str.split: the pieces of s between the occurrences of sep
RECURSIVE split(_, _, _)
split(s, sep, piece) ==
    IF s = <<>> THEN <<piece>>
    ELSE IF Head(s) = sep THEN <<piece>> \o split(Tail(s), sep, <<>>)
    ELSE split(Tail(s), sep, Append(piece, Head(s)))

\* lines 123-128 with the "-".join written out: the characters of the identifier
identifier_text(m) == join(identifier(m), "-")

matches_any(token) == TRUE

\* line 396: TARGET_TRIPLET_ARCH_PATTERN on the words of the model
matches_triplet_arch(token) ==
    token \in {<<"i686">>, <<"x86_64">>, <<"arm">>, <<"armeb">>, <<"arm64">>, <<"armhf">>,
               <<"aarch64">>, <<"aarch64_be">>, <<"mips">>, <<"mipsel">>, <<"powerpc">>, <<"s390x">>}

\* raw specs given as target triplets
Triplets ==
    { <<"aarch64", "-", "linux", "-", "gnu">>,
      <<"arm", "-", "linux", "-", "gnueabihf">>,
      <<"x86_64", "-", "w64", "-", "mingw32">>,
      <<"i686", "-", "linux", "-", "musl">>,
      <<"arm", "-", "unknown", "-", "nto", "-", "qnx800eabi">>,
      <<"aarch64", "-", "linux", "-", "gnu_ilp32">> }

\* lines 39-90.  A word is a one-element sequence; "ValueError" stands for the failed unpacking
\* of line 84 and "AssertionError" for line 86.
parse(raw_spec) ==
    LET tokens == split(raw_spec, "-", <<>>)
        n == Len(tokens)
    IN IF n \in {3, 4} /\ matches_triplet_arch(tokens[1])
          THEN LET word == tokens[1][1]
                   kernel == tokens[n - 1][1]
                   system == tokens[n][1]
                   os == IF kernel = "w64" THEN "windows" ELSE IF kernel = "nto" THEN "qnx" ELSE kernel
                   arch == CASE word = "i686" -> "x86"
                             [] word = "arm" ->
                                  (IF system \in {"gnueabihf"} THEN "armhf"
                                   ELSE IF os = "qnx" /\ system \in {"qnx800eabi"} THEN "armeabi"
                                   ELSE "arm")
                             [] word = "armeb" -> "armbe8"
                             [] word = "aarch64" -> "arm64"
                             [] word = "aarch64_be" -> "arm64be"
                             [] OTHER -> word
                   ilp32 == IF system \in {"gnu_ilp32"}
                               THEN (IF arch = "arm64" THEN "arm64ilp32" ELSE "otherilp32")
                               ELSE arch
                   config == IF system \in {"musl"} THEN "musl"
                             ELSE IF kernel = "w64" THEN "mingw"
                             ELSE NoConfig
               IN [error |-> "none", os |-> os, arch |-> ilp32, config |-> config, triplet |-> raw_spec]
       ELSE IF n < 2 THEN [error |-> "ValueError", os |-> "", arch |-> "", config |-> NoConfig, triplet |-> <<>>]
       ELSE IF n > 3 THEN [error |-> "AssertionError", os |-> "", arch |-> "", config |-> NoConfig, triplet |-> <<>>]
       ELSE [error |-> "none", os |-> tokens[1][1], arch |-> tokens[2][1],
             config |-> IF n = 3 THEN tokens[3][1] ELSE NoConfig, triplet |-> <<>>]

systemVars == <<params, bundle, host_machine, build_machine, rs, pk, wt, mk, rl, loc, staging, cachefiles,
                syncPc, sf, syncOut, calls, buildPc, bf, manifests, builddirs, sourcedirs,
                log, buildOut, completed, builtBefore>>

\* compute_bundle_parameters(bundle, machine, version)
QueryBundleParameters ==
    /\ mq.kind = "none"
    /\ \E b \in {"TOOLCHAIN", "SDK"}, m \in QueryMachines, v \in Versions :
        mq' = [kind |-> "bundle", bundle |-> b, machine |-> m, version |-> v,
               result |-> compute_bundle_parameters(b, m, v)]
    /\ UNCHANGED systemVars

\* build() for a host machine, then ensure_toolchain / ensure_sdk for the same machine
QueryLocalBundle ==
    /\ mq.kind = "none"
    /\ \E b \in {"TOOLCHAIN", "SDK"}, m \in QueryMachines :
        LET host == default_missing(m)
        IN mq' = [kind |-> "local", bundle |-> b, machine |-> host,
                  written |-> package_path(b, host), looked_up |-> local_bundle_path(b, host)]
    /\ UNCHANGED systemVars

\* MachineSpec.parse(m.identifier)
QueryParseIdentifier ==
    /\ mq.kind = "none"
    /\ \E m \in QueryMachines :
        mq' = [kind |-> "identifier", machine |-> m, raw |-> identifier_text(m),
               parsed |-> parse(identifier_text(m))]
    /\ UNCHANGED systemVars

\* MachineSpec.parse(triplet)
QueryParseTriplet ==
    /\ mq.kind = "none"
    /\ \E raw \in Triplets :
        mq' = [kind |-> "triplet", raw |-> raw, parsed |-> parse(raw)]
    /\ UNCHANGED systemVars

\* build.maybe_adapt_to_host(host)
QueryAdapt ==
    /\ mq.kind = "none"
    /\ \E b \in AdaptMachines, h \in AdaptMachines :
        /\ b.triplet = "None"
        /\ mq' = [kind |-> "adapt", build |-> b, host |-> h, result |-> maybe_adapt_to_host(b, h)]
    /\ UNCHANGED systemVars

EnvKeys == {<<"CC">>, <<"CC", "_FOR_BUILD">>, <<"PKG_CONFIG_PATH">>, <<"PKG_CONFIG_PATH", "_FOR_BUILD">>}

EnvEntry(k) == [key |-> k, value |-> <<"value of">> \o k]

\* os.environ: names in the order of their insertion, each with its value
Environs == UNION {{[i \in 1..Cardinality(K) |-> EnvEntry(order[i])] : order \in SetToSeqs(K)} : K \in SUBSET EnvKeys}

ConfigMachines == {Linux64, LinuxArm64, Windows64}

\* generate_machine_configs as Builder._prepare and configure call it
QueryInvokedConfigs ==
    /\ mq.kind = "none"
    /\ \E b \in ConfigMachines, h \in ConfigMachines, menv \in Environs, caller \in {"prepare", "configure"} :
        LET build == maybe_adapt_to_host(default_missing(b), default_missing(h))
            host == default_missing(h)
        IN mq' = [kind |-> "invoked_configs", caller |-> caller, build |-> build, host |-> host,
                  environ |-> menv,
                  result |-> IF caller = "prepare" THEN prepare_machine_configs(build, host, menv)
                                                   ELSE configure_machine_configs(build, host, menv)]
    /\ UNCHANGED systemVars

\* generate_machine_configs called with every argument in the place of its parameter
QueryMachineConfigs ==
    /\ mq.kind = "none"
    /\ \E b \in ConfigMachines, h \in ConfigMachines, menv \in Environs :
        mq' = [kind |-> "configs", build |-> b, host |-> h, environ |-> menv,
               result |-> generate_machine_configs(MachineValue(b), OtherValue("Path"),
                                                   MachineValue(h), OtherValue("Path"),
                                                   OtherValue("Path"), OtherValue("str"),
                                                   DictValue(menv), OtherValue("function"),
                                                   OtherValue("Path"))]
    /\ UNCHANGED systemVars

\* deps.toml as the TOML reader returns it: a dependency is a string or a table whose
\* keys other than id may be absent
Absent == "<absent>"

TomlString(i) == [shape |-> "str", id |-> i, for_machine |-> Absent, when |-> Absent]
TomlTable(i, fm, w) == [shape |-> "table", id |-> i, for_machine |-> fm, when |-> w]

TomlDependencies ==
    {TomlString(i) : i \in {"a", "b"}}
        \cup {TomlTable(i, fm, w) : i \in {"a", "b"}, fm \in {"host", "build", Absent},
                                    w \in {Absent, "machine.os == 'windows'"}}

\* a [section] per package, each with at most one dependency written out
TomlConfigs == [{"a", "b"} -> [dependencies : {<<>>} \cup {<<d>> : d \in TomlDependencies}]]

\* dict.get(key): None for an absent key
get(table, key) == IF table[key] = Absent THEN "None" ELSE table[key]

\* lines 1127-1131: DependencySpec(identifier, for_machine="host", when=None)
DependencySpec1(i) == Dep(i, "host", "None")

\* lines 1057-1060
parse_dependency(v) ==
    IF v.shape = "str" THEN DependencySpec1(v.id)
    ELSE Dep(v.id, get(v, "for_machine"), get(v, "when"))

\* lines 1109-1118
PackageSpec(i, deps, scope, w) == [identifier |-> i, dependencies |-> deps, scope |-> scope, when |-> w]

\* lines 978-995: the packages of load_dependency_parameters
load_packages(config) ==
    [i \in DOMAIN config |->
        PackageSpec(i, [k \in DOMAIN config[i].dependencies |-> parse_dependency(config[i].dependencies[k])],
                    "None", "None")]

\* load_dependency_parameters() on a deps.toml
QueryLoadDependencies ==
    /\ mq.kind = "none"
    /\ \E config \in TomlConfigs :
        mq' = [kind |-> "loaded", config |-> config, packages |-> load_packages(config)]
    /\ UNCHANGED systemVars

InitMachine ==
    /\ params = [deps_version |-> "2", bootstrap_version |-> "1", packages |-> Packages]
    /\ bundle = "SDK"
    /\ host_machine = Linux64
    /\ build_machine = Linux64
    /\ rs = NoResolution
    /\ mq = NoQuery
    /\ OthersIdle
    /\ SystemIdle

NextMachine ==
    \/ QueryBundleParameters
    \/ QueryLocalBundle
    \/ QueryParseIdentifier
    \/ QueryParseTriplet
    \/ QueryAdapt
    \/ QueryInvokedConfigs
    \/ QueryMachineConfigs
    \/ QueryLoadDependencies

SpecMachine == InitMachine /\ [][NextMachine]_vars

\* every variable but the one of the operation modelled on its own
packageFrame ==
    <<params, bundle, host_machine, build_machine, rs, wt, mk, rl, loc, staging, cachefiles,
      syncPc, sf, syncOut, calls, buildPc, bf, manifests, builddirs, sourcedirs, log,
      buildOut, completed, builtBefore, mq>>

waitFrame ==
    <<params, bundle, host_machine, build_machine, rs, pk, mk, rl, loc, staging, cachefiles,
      syncPc, sf, syncOut, calls, buildPc, bf, manifests, builddirs, sourcedirs, log,
      buildOut, completed, builtBefore, mq>>

makeFrame ==
    <<params, bundle, host_machine, build_machine, rs, pk, wt, rl, loc, staging, cachefiles,
      syncPc, sf, syncOut, calls, buildPc, bf, manifests, builddirs, sourcedirs, log,
      buildOut, completed, builtBefore, mq>>

rollFrame ==
    <<params, bundle, host_machine, build_machine, rs, pk, wt, mk, loc, staging, cachefiles,
      syncPc, sf, syncOut, calls, buildPc, bf, manifests, builddirs, sourcedirs, log,
      buildOut, completed, builtBefore, mq>>

\* ------------------------------------------------ Builder._package on its own
\* str(prefix) and prefix.as_posix() of the host prefix; one string except on Windows
PrefixNative == "<str(prefix)>"
PrefixPosix == "<prefix.as_posix()>"

File(name, text, utf8) == [name |-> name, text |-> text, utf8 |-> utf8]

PcName == <<"lib/pkgconfig/a", ".pc">>
HeaderName == <<"include/config", ".h">>
ToolName == <<"bin/tool">>
LibName == <<"lib/liba", ".a">>
ReadmeName == <<"share/doc/readme">>
ManifestName == <<"manifest/a", ".pkg">>
BisonName == <<"bin/bison", ".exe">>

InstallableNames == {PcName, HeaderName, ToolName, LibName, ReadmeName}

\* Path.parts[0], Path.stem and Path.suffix of the names above
parts0(name) ==
    CASE name[1] \in {"bin/tool", "bin/bison"} -> "bin"
      [] name[1] \in {"lib/pkgconfig/a", "lib/liba"} -> "lib"
      [] name[1] = "include/config" -> "include"
      [] name[1] = "share/doc/readme" -> "share"
      [] name[1] \in {"manifest/a", "manifest/bison"} -> "manifest"
      [] OTHER -> name[1]

stem_of(name) ==
    CASE name[1] = "bin/tool" -> "tool"
      [] name[1] = "bin/bison" -> "bison"
      [] OTHER -> "other"

suffix_of(name) == IF Len(name) > 1 THEN name[Len(name)] ELSE ""

\* the order of str on the names above
NameRank(name) ==
    CASE name = ToolName -> 1
      [] name = HeaderName -> 2
      [] name = LibName -> 3
      [] name = PcName -> 4
      [] name = ReadmeName -> 5
      [] OTHER -> 6

\* lines 585-588 on names kept as token sequences: every line followed by a newline
RECURSIVE lines_text(_)
lines_text(lines) ==
    IF lines = <<>> THEN <<>> ELSE Head(lines) \o <<"\n">> \o lines_text(Tail(lines))

sorted_names(lines) == SortSeq(lines, LAMBDA x, y : NameRank(x) < NameRank(y))

\* what a package's install step left in the host prefix, with the prefix spelt as in spell
InstalledFile(name, spell) ==
    CASE name = PcName -> File(name, <<"prefix=">> \o spell, TRUE)
      [] name = HeaderName -> File(name, <<"#define PREFIX ">> \o spell, TRUE)
      [] name = ToolName -> File(name, <<"#!">> \o spell \o <<"/bin/sh">>, TRUE)
      [] name = LibName -> File(name, <<"<bytes>">>, FALSE)
      [] OTHER -> File(name, <<"readme">>, TRUE)

SetToSeq(S) == CHOOSE q \in [1..Cardinality(S) -> S] : \A x \in S : \E i \in DOMAIN q : q[i] = x

\* lines 577-588: the manifest of the package lists what it installed, sorted
PrefixTree(installed, spell) ==
    {InstalledFile(n, spell) : n \in installed}
        \cup {File(ManifestName, lines_text(sorted_names(SetToSeq(installed))), TRUE)}

Spellings(machine) ==
    IF machine.os = "windows"
    THEN {<<>>, <<PrefixNative>>, <<PrefixPosix>>, <<PrefixNative, "\n", PrefixPosix>>}
    ELSE {<<>>, <<PrefixNative>>}

PrefixTrees(machine) ==
    {PrefixTree(installed, spell) : installed \in (SUBSET InstallableNames) \ {{}},
                                    spell \in Spellings(machine)}

\* the bootstrap toolchain of a Windows build machine
ToolchainPrefixTree ==
    {File(BisonName, <<"<bytes>">>, FALSE),
     File(VersionFileName, <<"1", "\n">>, TRUE),
     File(<<"manifest/bison", ".pkg">>, <<"bin/bison", ".exe", "\n">>, TRUE)}

\* lines 699-712
file_should_be_mixed_into_toolchain(name) ==
    IF name = VersionFileName THEN FALSE
    ELSE IF parts0(name) = "bin" THEN stem_of(name) \in {"bison", "flex", "m4", "nasm", "vswhere"}
    ELSE IF parts0(name) = "manifest" THEN FALSE
    ELSE suffix_of(name) \notin {".vapi", ".deps"}

\* lines 714-742: none of the names is a vala tool
file_is_toolchain_related(name) ==
    IF suffix_of(name) \in {".vapi", ".deps"} THEN TRUE
    ELSE IF parts0(name) = "bin"
         THEN suffix_of(name) # ".pdb" /\ stem_of(name) \notin {"gdbus", "gio", "gobject-query", "gsettings"}
    ELSE parts0(name) = "manifest"

\* lines 744-755
file_is_sdk_related(name) ==
    IF suffix_of(name) = ".pdb" THEN FALSE
    ELSE IF suffix_of(name) \in {".vapi", ".deps"} THEN TRUE
    ELSE IF parts0(name) = "bin" THEN FALSE
    ELSE parts0(name) # "share"

\* copy_files (lines 1063-1070): a copied file replaces one of the same name
copy_into(tree, files) == {f \in tree : \A g \in files : g.name # f.name} \cup files

\* lines 630-646
stage_toolchain_files(machine, prefix_tree, toolchain_tree) ==
    LET mixin == IF machine.os = "windows"
                 THEN {f \in toolchain_tree : file_should_be_mixed_into_toolchain(f.name)}
                 ELSE {}
    IN copy_into(mixin, {f \in prefix_tree : file_is_toolchain_related(f.name)})

stage_sdk_files(prefix_tree) == {f \in prefix_tree : file_is_sdk_related(f.name)}

\* line 689: prefix.joinpath(entry).exists(); joining the empty entry gives the directory itself
entry_exists(tree, entry) == entry = <<>> \/ \E f \in tree : f.name = entry

keep_every_entry(tree, f) == {f}

\* lines 684-696 for one manifest: the set holding the rewritten manifest, or nothing once unlinked
adjust_manifest(tree, f) ==
    LET entries == split(strip(f.text), "\n", <<>>)
        lines == SelectSeq(entries, LAMBDA e : entry_exists(tree, e))
    IN IF lines # <<>>
       THEN {[f EXCEPT !.text = lines_text(sorted_names(lines))]}
       ELSE {}

is_manifest(name) == parts0(name) = "manifest" /\ suffix_of(name) = ".pkg"

adjust_manifests(tree) ==
    {f \in tree : ~is_manifest(f.name)}
        \cup UNION {adjust_manifest(tree, f) : f \in {g \in tree : is_manifest(g.name)}}

\* lines 651-653
raw_prefixes(machine) ==
    IF machine.os = "windows" THEN <<PrefixNative, PrefixPosix>> ELSE <<PrefixNative>>

RECURSIVE replace_each(_, _, _)
replace_each(text, olds, new) ==
    IF olds = <<>> THEN text ELSE replace_each(replace(text, Head(olds), new), Tail(olds), new)

rename_whatever_changed(f, prefixes) ==
    LET new_text == replace_each(f.text, prefixes, "@FRIDA_TOOLROOT@")
    IN IF f.utf8 /\ new_text # f.text
       THEN [f EXCEPT !.text = new_text, !.name = f.name \o <<".frida.in">>]
       ELSE f

\* lines 655-671 for one file
adjust_hardcoded_paths(f, prefixes) ==
    LET is_pcfile == suffix_of(f.name) = ".pc"
        replacement == IF is_pcfile THEN "${frida_sdk_prefix}" ELSE "@FRIDA_TOOLROOT@"
        new_text == replace_each(f.text, prefixes, replacement)
    IN IF ~f.utf8 THEN f
       ELSE IF new_text = f.text THEN f
       ELSE IF is_pcfile THEN [f EXCEPT !.text = new_text]
       ELSE [f EXCEPT !.text = new_text, !.name = f.name \o <<".frida.in">>]

\* lines 612-615
PackageStage ==
    /\ pk.pc = "stage"
    /\ LET staged == IF bundle = "TOOLCHAIN"
                     THEN stage_toolchain_files(host_machine, pk.prefix, pk.toolchain)
                     ELSE stage_sdk_files(pk.prefix)
       IN pk' = [pk EXCEPT !.pc = "manifests", !.staged = staged, !.original = staged]
    /\ UNCHANGED packageFrame

\* line 617
PackageAdjustManifests ==
    /\ pk.pc = "manifests"
    /\ pk' = [pk EXCEPT !.pc = "paths", !.staged = adjust_manifests(pk.staged)]
    /\ UNCHANGED packageFrame

\* line 618
PackageAdjustPaths ==
    /\ pk.pc = "paths"
    /\ pk' = [pk EXCEPT !.pc = "version",
                        !.staged = {adjust_hardcoded_paths(f, raw_prefixes(host_machine)) : f \in pk.staged}]
    /\ UNCHANGED packageFrame

\* line 620
PackageWriteVersion ==
    /\ pk.pc = "version"
    /\ pk' = [pk EXCEPT !.pc = "assemble",
                        !.staged = copy_into(pk.staged,
                                             {File(VersionFileName, <<params.deps_version, "\n">>, TRUE)})]
    /\ UNCHANGED packageFrame

\* lines 622-626
PackageAssemble ==
    /\ pk.pc = "assemble"
    /\ pk' = [pk EXCEPT !.pc = "done", !.archive = pk.staged]
    /\ UNCHANGED packageFrame

InitPackage ==
    /\ params = [deps_version |-> "2", bootstrap_version |-> "1", packages |-> Packages]
    /\ bundle \in {"SDK", "TOOLCHAIN"}
    /\ host_machine \in {Linux64, Windows64}
    /\ build_machine = host_machine
    /\ rs = NoResolution
    /\ mq = NoQuery
    /\ pk \in {[pc |-> "stage", prefix |-> t, toolchain |-> ToolchainPrefixTree,
                staged |-> {}, original |-> {}, archive |-> {}] : t \in PrefixTrees(host_machine)}
    /\ wt = NoWait /\ mk = NoMake /\ rl = NoRoll
    /\ SystemIdle

NextPackage ==
    \/ PackageStage
    \/ PackageAdjustManifests
    \/ PackageAdjustPaths
    \/ PackageWriteVersion
    \/ PackageAssemble

SpecPackage == InitPackage /\ [][NextPackage]_vars

\* ------------------------------------------------------------ wait() on its own
\* what urlopen can do with one request: a response, an HTTPError, or no answer at all
Answers == {"200", "404", "500", "URLError"}

return_on_any_answer(answer) == IF answer = "URLError" THEN "raised" ELSE "returned"

\* lines 838-843: where wait() goes after one request
after_request(answer) ==
    IF answer = "URLError" THEN "raised"
    ELSE IF answer = "404" THEN "sleep"
    ELSE "returned"

\* lines 839-840: one HEAD request for the bundle's URL
WaitRequest ==
    /\ wt.pc = "request"
    /\ \E answer \in Answers :
        /\ answer = "404" => wt.left > 0
        /\ wt' = [wt EXCEPT !.pc = after_request(answer),
                            !.left = IF answer = "404" THEN @ - 1 ELSE @,
                            !.requests = Append(@, [method |-> "HEAD", url |-> wt.url, at |-> wt.clock]),
                            !.answers = Append(@, answer)]
    /\ UNCHANGED waitFrame

\* lines 844-845: the message, then five minutes of sleep
WaitSleep ==
    /\ wt.pc = "sleep"
    /\ wt' = [wt EXCEPT !.pc = "request", !.clock = @ + 5 * 60]
    /\ UNCHANGED waitFrame

\* lines 831-836, with a server that answers 404 at most wt.left more times
InitWait ==
    /\ params = [deps_version |-> "2", bootstrap_version |-> "1", packages |-> Packages]
    /\ bundle \in {"SDK", "TOOLCHAIN"}
    /\ host_machine \in {Linux64, LinuxArm64, Windows64}
    /\ build_machine = Linux64
    /\ rs = NoResolution
    /\ mq = NoQuery
    /\ pk = NoPackaging /\ mk = NoMake /\ rl = NoRoll
    /\ \E left \in 0..MaxPolls :
        wt = [pc |-> "request", left |-> left, clock |-> 0, requests |-> <<>>, answers |-> <<>>,
              url |-> compute_bundle_parameters(bundle, host_machine, params.deps_version).url]
    /\ SystemIdle

NextWait ==
    \/ WaitRequest
    \/ WaitSleep

SpecWait == InitWait /\ [][NextWait]_vars

\* the process running wait() keeps running
SpecWaitFair == SpecWait /\ WF_vars(NextWait)

\* ------------------------------------------------------------ make() on its own
TargetNames == {"all", "clean", "distclean", "install", "test", "foo"}

RECURSIVE SeqsUpTo(_, _)
SeqsUpTo(S, n) ==
    IF n = 0 THEN {<<>>} ELSE {<<>>} \cup {<<x>> \o q : x \in S, q \in SeqsUpTo(S, n - 1)}

\* lines 60-63: -v when V=1
compile_options(verbose) == IF verbose THEN <<"-v">> ELSE <<>>

\* line 65: FRIDA_TEST_OPTIONS is not set
test_options == <<"-v">>

Callable == <<"<distclean>">>
NoAction == <<>>

\* lines 68-74: standard_targets.get(target, None)
standard_targets(target, verbose) ==
    CASE target = "all" -> <<"compile">> \o compile_options(verbose)
      [] target = "clean" -> <<"compile", "--clean">> \o compile_options(verbose)
      [] target = "distclean" -> Callable
      [] target = "install" -> <<"install">>
      [] target = "test" -> <<"test">> \o test_options
      [] OTHER -> NoAction

\* lines 108-117
meson_command_of(target, action) ==
    IF action = NoAction THEN "compile"
    ELSE IF action # Callable THEN action[1]
    ELSE "None"

NoPending == [set |-> FALSE, argv |-> <<>>, serves |-> <<>>]

Issued(argv, serves, ok) == [argv |-> argv, serves |-> serves, ok |-> ok]

\* lines 119-127: the target joins the pending compile command
add_to_pending(pending, target, action) ==
    LET started == IF pending.set THEN pending ELSE [set |-> TRUE, argv |-> <<"compile">>, serves |-> <<>>]
    IN [started EXCEPT !.argv = @ \o (IF action # NoAction THEN Tail(action) ELSE <<target>>),
                       !.serves = Append(@, target)]

\* lines 129-140: what one pass of the loop runs for a target that is not a compile target
commands_for(pending, target, action) ==
    (IF pending.set THEN <<[argv |-> pending.argv, serves |-> pending.serves]>> ELSE <<>>)
        \o <<[argv |-> action, serves |-> <<target>>]>>

\* do_meson_command with check=True, one command after the other: the first k succeed; when
\* that is not all of them the next one fails and raises
run_commands(cmds, k) ==
    [i \in 1..(IF k < Len(cmds) THEN k + 1 ELSE k) |-> Issued(cmds[i].argv, cmds[i].serves, i <= k)]

\* lines 54-57 and 76-90: configure when build.ninja is missing, then the environment.  The
\* call of configure() ends in env.generate_machine_configs, invoked as in Builder._prepare: it
\* raises or returns
MakeStart ==
    /\ mk.pc = "start"
    /\ \/ /\ ~mk.build_ninja
          /\ mk' = [mk EXCEPT !.pc = "raised"]
       \/ mk' = [mk EXCEPT !.pc = "loop", !.build_ninja = TRUE]
    /\ UNCHANGED makeFrame

\* lines 101-140: one pass of the loop
MakeTarget ==
    /\ mk.pc = "loop"
    /\ mk.pending_targets # <<>>
    /\ LET target == Head(mk.pending_targets)
           action == standard_targets(target, mk.verbose)
       IN IF meson_command_of(target, action) = "compile"
          THEN mk' = [mk EXCEPT !.pending_targets = Tail(@),
                                !.pending_compile = add_to_pending(@, target, action)]
          ELSE LET cmds == commands_for(mk.pending_compile, target, action)
               IN \E k \in 0..Len(cmds) :
                    mk' = [mk EXCEPT !.pending_targets = Tail(@),
                                     !.pending_compile = NoPending,
                                     !.commands = @ \o run_commands(cmds, k),
                                     !.pc = IF k < Len(cmds) THEN "raised" ELSE "loop"]
    /\ UNCHANGED makeFrame

\* lines 142-146: the last pending compile command
MakeFinish ==
    /\ mk.pc = "loop"
    /\ mk.pending_targets = <<>>
    /\ LET cmds == IF mk.pending_compile.set
                   THEN <<[argv |-> mk.pending_compile.argv, serves |-> mk.pending_compile.serves]>>
                   ELSE <<>>
       IN \E k \in 0..Len(cmds) :
            mk' = [mk EXCEPT !.pending_compile = NoPending,
                             !.commands = @ \o run_commands(cmds, k),
                             !.pc = IF k < Len(cmds) THEN "raised" ELSE "done"]
    /\ UNCHANGED makeFrame

InitMake ==
    /\ params = [deps_version |-> "2", bootstrap_version |-> "1", packages |-> Packages]
    /\ bundle = "SDK"
    /\ host_machine = Linux64
    /\ build_machine = Linux64
    /\ rs = NoResolution
    /\ mq = NoQuery
    /\ pk = NoPackaging /\ wt = NoWait /\ rl = NoRoll
    /\ \E targets \in SeqsUpTo(TargetNames, MaxTargets), verbose \in BOOLEAN, build_ninja \in BOOLEAN :
        mk = [pc |-> "start", targets |-> targets, pending_targets |-> targets,
              pending_compile |-> NoPending, commands |-> <<>>, verbose |-> verbose,
              build_ninja |-> build_ninja]
    /\ SystemIdle

NextMake ==
    \/ MakeStart
    \/ MakeTarget
    \/ MakeFinish

SpecMake == InitMake /\ [][NextMake]_vars

\* ------------------------------------------------------------ roll() on its own
\* lines 1004-1008: deps.toml after configure_bootstrap_version(version)
configure_bootstrap_version(toml, version) == [toml EXCEPT !.bootstrap_version = version]

RollStep(r, name, pc) == [r EXCEPT !.ran = Append(@, name), !.pc = pc]

\* lines 231-235: the parameters are loaded; the SDK is activated before anything else
RollStart ==
    /\ rl.pc = "start"
    /\ rl' = IF rl.activate /\ bundle = "SDK"
             THEN [RollStep(rl, "configure_bootstrap_version", "head")
                      EXCEPT !.toml = configure_bootstrap_version(rl.toml, params.deps_version)]
             ELSE [rl EXCEPT !.pc = "head"]
    /\ UNCHANGED rollFrame

\* lines 237-246: the HEAD request for the public URL
RollHead ==
    /\ rl.pc = "head"
    /\ \E answer \in Answers :
        rl' = [RollStep(rl, "HEAD", CASE answer = "200" -> "returned"
                                      [] answer = "404" -> "s3"
                                      [] answer = "500" -> "CommandError"
                                      [] OTHER -> "URLError")
                  EXCEPT !.head = answer,
                         !.url = compute_bundle_parameters(bundle, host_machine, params.deps_version).url]
    /\ UNCHANGED rollFrame

\* lines 248-255: aws s3 ls
RollLs ==
    /\ rl.pc = "s3"
    /\ \E returncode \in {0, 1, 2} :
        rl' = [RollStep(rl, "s3 ls", CASE returncode = 0 -> "returned"
                                       [] returncode = 1 -> "build"
                                       [] OTHER -> "CommandError")
                  EXCEPT !.s3 = returncode]
    /\ UNCHANGED rollFrame

\* lines 257 and 283-298: build(); a failed child process ends in sys.exit(1)
RollBuild ==
    /\ rl.pc = "build"
    /\ \/ rl' = RollStep(rl, "build", IF rl.post # "None" THEN "post" ELSE "upload")
       \/ rl' = RollStep(rl, "build", "SystemExit")
    /\ UNCHANGED rollFrame

\* lines 259-271: the post-processing script
RollPost ==
    /\ rl.pc = "post"
    /\ IF rl.post = "missing"
       THEN rl' = [rl EXCEPT !.pc = "CommandError"]
       ELSE \/ rl' = RollStep(rl, "post", "upload")
            \/ rl' = RollStep(rl, "post", "CalledProcessError")
    /\ UNCHANGED rollFrame

\* line 273: aws s3 cp
RollUpload ==
    /\ rl.pc = "upload"
    /\ \/ rl' = RollStep(rl, "s3 cp", "purge")
       \/ rl' = RollStep(rl, "s3 cp", "CalledProcessError")
    /\ UNCHANGED rollFrame

\* lines 275-279: the purge, then the toolchain is activated
purge_and_activate(r, b, version) ==
    IF r.activate /\ b = "TOOLCHAIN"
    THEN [RollStep(RollStep(r, "cfcli purge", "returned"), "configure_bootstrap_version", "returned")
             EXCEPT !.toml = configure_bootstrap_version(r.toml, version)]
    ELSE RollStep(r, "cfcli purge", "returned")

RollPurge ==
    /\ rl.pc = "purge"
    /\ \/ rl' = purge_and_activate(rl, bundle, params.deps_version)
       \/ rl' = RollStep(rl, "cfcli purge", "CalledProcessError")
    /\ UNCHANGED rollFrame

InitRoll ==
    /\ params \in [deps_version : {"2"}, bootstrap_version : Versions, packages : {Packages}]
    /\ bundle \in {"SDK", "TOOLCHAIN"}
    /\ host_machine \in {Linux64, Windows64}
    /\ build_machine = Linux64
    /\ rs = NoResolution
    /\ mq = NoQuery
    /\ pk = NoPackaging /\ wt = NoWait /\ mk = NoMake
    /\ \E activate \in BOOLEAN, post \in {"None", "exists", "missing"} :
        rl = [pc |-> "start", activate |-> activate, post |-> post, head |-> "None", s3 |-> -1,
              url |-> <<>>, ran |-> <<>>,
              toml |-> [version |-> params.deps_version, bootstrap_version |-> params.bootstrap_version]]
    /\ SystemIdle

NextRoll ==
    \/ RollStart
    \/ RollHead
    \/ RollLs
    \/ RollBuild
    \/ RollPost
    \/ RollUpload
    \/ RollPurge

SpecRoll == InitRoll /\ [][NextRoll]_vars

\* ------------------------------------------------------------------ claims
Trimmed(s) == RStrip(LStrip(s))

UpToDate(dir, v) ==
    dir.exists /\ HasFile(dir, VersionFileName) /\ Trimmed(FileText(dir, VersionFileName)) = <<v>>

\* the tree a complete extraction and rewrite of the bundle of version v leaves
ExtractedTree(v) ==
    { [name |-> <<"env.txt">>, text |-> <<"root=", "/deps/toolchain">>],
      [name |-> VersionFileName, text |-> <<v, "\n">>] }

\* C1: a sync call that finds location with a readable VERSION.txt whose trimmed contents equal
\* the requested version returns Pristine, issues no HTTP request, and leaves location, the
\* staging directory and the local archives as they were.
C1_VersionGate ==
    (syncOut.done /\ UpToDate(syncOut.frame.pre.loc, syncOut.frame.version))
        => /\ syncOut.ret = "Pristine"
           /\ syncOut.frame.requests = 0
           /\ syncOut.post = syncOut.frame.pre

C1_Witness == syncOut.done /\ UpToDate(syncOut.frame.pre.loc, syncOut.frame.version)

\* C2: a sync that returns right after a successful sync of the same location and version
\* returns Pristine and leaves location as the first call left it.
C2_SyncIdempotence ==
    (syncOut.done /\ syncOut.frame.prevOk /\ syncOut.frame.prevVersion = syncOut.frame.version
        /\ syncOut.ret \in {"Pristine", "Modified"})
        => /\ syncOut.ret = "Pristine"
           /\ syncOut.post.loc = syncOut.frame.pre.loc

C4_ModifiedIffWiped ==
    (syncOut.done /\ syncOut.ret \in {"Pristine", "Modified"})
        => (syncOut.ret = "Modified"
                <=> (syncOut.frame.pre.loc.exists
                        /\ ~UpToDate(syncOut.frame.pre.loc, syncOut.frame.version)))

C4_Witness ==
    /\ syncOut.done
    /\ syncOut.ret = "Pristine"
    /\ ~syncOut.frame.pre.loc.exists
    /\ syncOut.post.loc.exists

\* C5: when the GET is answered 404, sync raises BundleNotFoundError and location is absent
\* afterwards; another HTTP error is raised as it is.
C5_MissingBundle ==
    (syncOut.done /\ syncOut.frame.requests = 1)
        => /\ syncOut.frame.status = 404 => (syncOut.ret = "BundleNotFoundError" /\ ~syncOut.post.loc.exists)
           /\ syncOut.frame.status = 500 => syncOut.ret = "HTTPError"

C5_Witness ==
    /\ syncOut.done
    /\ syncOut.frame.status = 404
    /\ syncOut.frame.pre.loc.exists
    /\ ~syncOut.post.loc.exists

\* C6: on every exit of sync the temporary archive of the call is deleted and no staging
\* directory created by the call remains.
C6_ScopedResources ==
    syncOut.done => (~syncOut.frame.tmpLive /\ ~(syncOut.frame.stagingMade /\ syncOut.post.staging.exists))

InvocationOf(e) == e.kind \in {"setup", "install"}

BuiltEarlier(e, staleToo) ==
    \E b \in builtBefore : b.machine = prefix_of(e.role) /\ b.pkg = e.pkg /\ (staleToo \/ ~b.stale)

C8_FailureIsFatal ==
    \A i \in 1..Len(log) :
        (InvocationOf(log[i]) /\ ~log[i].ok)
            => /\ i = Len(log)
               /\ buildPc = "idle"
               /\ buildOut.ret = "CalledProcessError"
               /\ ~ManifestExists(log[i].pkg, log[i].role)
               /\ \A j \in 1..(i - 1) : log[j].kind = "manifest" => ManifestExists(log[j].pkg, log[j].role)

C8_Witness ==
    \E i \in 1..Len(log) :
        /\ InvocationOf(log[i]) /\ ~log[i].ok
        /\ \E j \in 1..(i - 1) : log[j].kind = "manifest"

ExpectedManifest(p) ==
    CASE p = "a" -> <<"include/a.h", "\n", "lib/liba.a", "\n">>
      [] p = "b" -> <<"lib/libb.a", "\n">>
      [] OTHER -> <<"bin/c", "\n">>

\* C9: a manifest on disk means setup and install of its pair exited 0 since the last wipe, and
\* it holds the sorted paths, each followed by a newline.
C9_ManifestMeansInstalled ==
    \A m \in manifests :
        /\ \A s \in {"setup", "install"} : [machine |-> m.machine, pkg |-> m.pkg, step |-> s] \in completed
        /\ m.text = ExpectedManifest(m.pkg)

C9_Witness == \E m \in manifests : m.pkg = "a"

IsAttempt(e) == e.kind \in {"skip", "build"}

\* C10: in a run every resolved dependency of a package is cloned and built before the package,
\* each package is cloned before it is built, and its host build is attempted before its
\* build-machine build.
C10_BuildOrdering ==
    \A i \in 1..Len(log) :
        /\ log[i].kind = "clone" =>
              \A d \in dep_ids(log[i].pkg) :
                  \E j \in 1..(i - 1) : IsAttempt(log[j]) /\ log[j].pkg = d
        /\ IsAttempt(log[i]) =>
              \E j \in 1..(i - 1) : log[j].kind = "clone" /\ log[j].pkg = log[i].pkg
        /\ (IsAttempt(log[i]) /\ log[i].role = "build") =>
              \E j \in 1..(i - 1) : IsAttempt(log[j]) /\ log[j].pkg = log[i].pkg /\ log[j].role = "host"

C10_Witness ==
    \E i, j, k \in 1..Len(log) :
        /\ i < j /\ j < k
        /\ IsAttempt(log[i]) /\ log[i].pkg = "a" /\ log[i].role = "build"
        /\ log[j].kind = "clone" /\ log[j].pkg = "b"
        /\ log[k].kind = "clone" /\ log[k].pkg = "c"

\* the position of an identifier in a sequence that holds it
IndexOf(seq, x) == CHOOSE i \in 1..Len(seq) : seq[i] = x

\* what a package reaches through the dependencies of the packages in pkgs
RECURSIVE Descendants(_, _)
Descendants(pkgs, S) ==
    LET more == UNION {dep_ids(i) : i \in S \cap pkgs} \ S
    IN IF more = {} THEN S ELSE Descendants(pkgs, S \cup more)

HasCycle(pkgs) == \E p \in pkgs : \E d \in dep_ids(p) : p \in Descendants(pkgs, {d})

Ordered(out) ==
    \A p \in out.selected : \A d \in dep_ids(p) :
        /\ p \in Range(out.order)
        /\ d \in Range(out.order)
        /\ IndexOf(out.order, d) < IndexOf(out.order, p)

Buildable == {i \in DOMAIN params.packages : evaluate_condition(params.packages[i].when)}

FilteredDeps(i) == {dep.identifier : dep \in {x \in params.packages[i].dependencies : evaluate_condition(x.when)}}

\* the least set of buildable packages that holds S and every filtered dependency of its members
LeastClosed(S) ==
    LET candidates == {X \in SUBSET Buildable : S \subseteq X /\ \A i \in X : FilteredDeps(i) \subseteq X}
    IN {i \in Buildable : \A X \in candidates : i \in X}

ExpectedSelection(only, excluded) ==
    (IF only.given THEN LeastClosed(only.ids)
     ELSE IF bundle = "TOOLCHAIN" THEN LeastClosed({i \in Buildable : params.packages[i].scope = "toolchain"})
     ELSE {i \in Buildable : params.packages[i].scope = "None"}) \ excluded

\* C12: when the selection succeeds, the selected set is the dependency closure of the explicit
\* ids, else for the toolchain bundle the closure of the packages of scope "toolchain", else the
\* buildable packages without scope; the excluded ids are taken out of it afterwards.
C12_Selection ==
    (rs.done /\ ~rs.out.selecting) => rs.out.selected = ExpectedSelection(rs.only, rs.excluded)

C12_Witness ==
    /\ rs.done
    /\ ~rs.out.selecting
    /\ ~rs.only.given
    /\ bundle = "TOOLCHAIN"
    /\ rs.excluded = {"b"}
    /\ rs.out.selected = {"a", "c"}

TopLevel(only) ==
    IF only.given THEN only.ids
    ELSE IF bundle = "TOOLCHAIN" THEN {i \in Buildable : params.packages[i].scope = "toolchain"}
    ELSE {i \in Buildable : params.packages[i].scope = "None"}

\* the packages the selection looks at
ReachedInSelection(only, excluded) ==
    IF only.given \/ bundle = "TOOLCHAIN"
       THEN Descendants(Buildable, TopLevel(only)) \cap Buildable
       ELSE TopLevel(only) \ excluded

DeclaresUnavailable(p) == \E d \in FilteredDeps(p) : d \notin Buildable

\* C13: when a package reached during the selection declares a dependency that is not a key of
\* the map of available packages, the resolution ends with MissingDependencyError.
C13_MissingDependencyError ==
    (rs.done /\ TopLevel(rs.only) \subseteq Buildable
        /\ ~HasCycle(ReachedInSelection(rs.only, rs.excluded))
        /\ \E p \in ReachedInSelection(rs.only, rs.excluded) : DeclaresUnavailable(p))
        => rs.out.error = "MissingDependencyError"

\* a build() run is past its prepare step, whose toolchain sync returned Modified
PreparedOnModified ==
    /\ syncOut.done
    /\ syncOut.frame.caller = "prepare"
    /\ syncOut.ret = "Modified"
    /\ buildPc # "sync"

SamePair(e, f) == e.pkg = f.pkg /\ prefix_of(e.role) = prefix_of(f.role)

FullIdentifier(m) == IF m.config = NoConfig THEN <<m.os, m.arch>> ELSE <<m.os, m.arch, m.config>>

LowerName(b) == IF b = "TOOLCHAIN" THEN "toolchain" ELSE "sdk"

NamedAfter(q, X) ==
    /\ q.result.filename = <<LowerName(q.bundle)>> \o X \o <<".tar.xz">>
    /\ q.result.url = <<"https://build.frida.re/deps", "/", q.version, "/">> \o q.result.filename

\* C15 as stated: the file name is <bundle>-<X>.tar.xz and the url <root>/<version>/<filename>,
\* X being windows-x86 for the toolchain of Windows on x86 and x86_64 and the full identifier of
\* the machine in every other case.
C15_BundleFileNameByIdentifier ==
    mq.kind = "bundle"
        => NamedAfter(mq, IF mq.bundle = "TOOLCHAIN" /\ mq.machine.os = "windows"
                                /\ mq.machine.arch \in {"x86", "x86_64"}
                             THEN <<"windows", "x86">>
                             ELSE FullIdentifier(mq.machine))

\* C15 as amended: as above, but X is os-arch, without the config, for the toolchain of Windows
\* on any other architecture.
C15_BundleFileName ==
    mq.kind = "bundle"
        => NamedAfter(mq, IF mq.bundle = "TOOLCHAIN" /\ mq.machine.os = "windows"
                             THEN (IF mq.machine.arch \in {"x86", "x86_64"}
                                      THEN <<"windows", "x86">>
                                      ELSE <<"windows", mq.machine.arch>>)
                             ELSE FullIdentifier(mq.machine))

C15_Witness ==
    /\ mq.kind = "bundle"
    /\ mq.bundle = "TOOLCHAIN"
    /\ mq.machine.os = "windows" /\ mq.machine.arch = "arm64" /\ mq.machine.config = "mt"
    /\ mq.result.filename = <<"toolchain", "windows", "arm64", ".tar.xz">>

Stem(name) == SubSeq(name, 1, Len(name) - 1)

EndsInSuffix(name) == name # <<>> /\ name[Len(name)] = ".frida.in"

Substituted(text) == [i \in 1..Len(text) |-> IF text[i] = "@FRIDA_TOOLROOT@" THEN "/deps/toolchain" ELSE text[i]]

SyncSucceeded == syncOut.done /\ syncOut.ret \in {"Pristine", "Modified"}

\* C16: after a successful sync no file of location has a name ending in .frida.in, and every
\* member of the archive with that suffix is there under the name without it, @FRIDA_TOOLROOT@
\* replaced by the POSIX form of location throughout.
C16_TemplateSubstitution ==
    SyncSucceeded
        => /\ \A f \in syncOut.post.loc.files : ~EndsInSuffix(f.name)
           /\ \A i \in 1..Len(syncOut.frame.archive) :
                LET member == syncOut.frame.archive[i] IN
                EndsInSuffix(member.name) =>
                    \E f \in syncOut.post.loc.files :
                        /\ f.name = Stem(member.name)
                        /\ \A k \in 1..Len(f.text) : f.text[k] # "@FRIDA_TOOLROOT@"
                        /\ f.text = Substituted(member.text)

C16_Witness ==
    /\ SyncSucceeded
    /\ \E i \in 1..Len(syncOut.frame.archive) : EndsInSuffix(syncOut.frame.archive[i].name)
    /\ \E f \in syncOut.post.loc.files : f.text = <<"root=", "/deps/toolchain">>

\* C17: for every bundle and host machine, the path build() writes is the path that
\* ensure_toolchain / ensure_sdk for that machine look at as the locally staged archive.
C17_LocalBundlePickedUp == mq.kind = "local" => mq.written = mq.looked_up

\* the archive sync looks for next to location
StagedName == compute_bundle_filename("TOOLCHAIN", build_machine)

\* the call got past the version check with a locally staged archive in place
NeededArchiveWithLocal ==
    /\ syncOut.done
    /\ ~UpToDate(syncOut.frame.pre.loc, syncOut.frame.version)
    /\ syncOut.frame.pre.cachefiles[StagedName].exists

\* C18: when the locally staged archive exists where sync needs an archive, sync issues no HTTP
\* request, extracts that file, and the file is still there when sync returns or raises.
C18_LocalArchiveKept ==
    NeededArchiveWithLocal
        => /\ syncOut.frame.requests = 0
           /\ syncOut.frame.archive = syncOut.frame.pre.cachefiles[StagedName].members
           /\ syncOut.post.cachefiles[StagedName] = syncOut.frame.pre.cachefiles[StagedName]
           /\ ~syncOut.frame.tmpLive
           /\ SyncSucceeded =>
                syncOut.post.loc.files =
                    {IF EndsInSuffix(m.name) THEN [name |-> Stem(m.name), text |-> Substituted(m.text)] ELSE m :
                        m \in Range(syncOut.frame.pre.cachefiles[StagedName].members)}

C18_Witness ==
    /\ NeededArchiveWithLocal
    /\ SyncSucceeded
    /\ syncOut.post.loc.exists
    /\ syncOut.post.cachefiles[StagedName].exists

\* C19: parsing the identifier of a machine built from an os, an arch and an optional config
\* gives that os, arch and config back, hence the same identifier.
C19_IdentifierRoundTrip ==
    mq.kind = "identifier"
        => /\ mq.parsed.error = "none"
           /\ mq.parsed.os = mq.machine.os
           /\ mq.parsed.arch = mq.machine.arch
           /\ mq.parsed.config = mq.machine.config
           /\ FullIdentifier(mq.parsed) = FullIdentifier(mq.machine)

C19_Witness ==
    /\ mq.kind = "identifier"
    /\ mq.raw = <<"linux", "-", "x86_64", "-", "musl">>
    /\ mq.parsed.config = "musl"

\* C20 as stated: the host is returned when it is a Windows machine on x86_64 or x86, or when
\* the identifiers are equal and the host has a triplet; else the build machine is returned.
C20_AdaptToWindowsHost ==
    mq.kind = "adapt"
        => mq.result =
              IF (mq.host.os = "windows" /\ mq.host.arch \in {"x86_64", "x86"})
                    \/ (FullIdentifier(mq.build) = FullIdentifier(mq.host) /\ mq.host.triplet # "None")
                 THEN mq.host ELSE mq.build

\* C20 as amended: the host is returned when the identifiers are equal and the host has a
\* triplet, or when the build machine is a Windows machine and the host's arch is x86_64, x86 or
\* that of the build machine; else the build machine is returned.
C20_AdaptOnWindowsBuild ==
    mq.kind = "adapt"
        => mq.result =
              IF (FullIdentifier(mq.build) = FullIdentifier(mq.host) /\ mq.host.triplet # "None")
                    \/ (mq.build.os = "windows"
                            /\ (mq.host.arch \in {"x86_64", "x86"} \/ mq.host.arch = mq.build.arch))
                 THEN mq.host ELSE mq.build

C20_Witness ==
    /\ mq.kind = "adapt"
    /\ mq.build.os = "windows" /\ mq.build.arch = "arm64"
    /\ mq.host.os = "windows" /\ mq.host.arch = "x86_64"
    /\ mq.result = mq.host

\* C21: as invoked by the prepare step and by configure, generate_machine_configs returns, takes
\* the build as a cross build exactly when the identifiers of the two machines differ, and in the
\* native case returns the build configuration as the host configuration, made from the
\* unmodified input environment.
C21_CrossDetection ==
    mq.kind = "invoked_configs"
        => /\ mq.result.error = "none"
           /\ mq.result.is_cross_build <=> (FullIdentifier(mq.host) # FullIdentifier(mq.build))
           /\ (FullIdentifier(mq.host) = FullIdentifier(mq.build))
                => (mq.result.same_object /\ mq.result.build_environ = Range(mq.environ))

IsForBuild(name) == name # <<>> /\ name[Len(name)] = "_FOR_BUILD"

\* C28: in a cross build the environment of the build machine maps X to the value of X_FOR_BUILD
\* for every X_FOR_BUILD of the input environment, and holds no value of a host toolchain
\* variable of the input environment.
C28_ForBuildOverrides ==
    (mq.kind = "configs" /\ mq.result.error = "none" /\ mq.result.is_cross_build)
        => /\ \A i \in 1..Len(mq.environ) :
                IsForBuild(mq.environ[i].key) =>
                    [key |-> Stem(mq.environ[i].key), value |-> mq.environ[i].value] \in mq.result.build_environ
           /\ \A i \in 1..Len(mq.environ) :
                mq.environ[i].key \in {<<"CC">>, <<"CFLAGS">>, <<"LDFLAGS">>} =>
                    \A item \in mq.result.build_environ : item.value # mq.environ[i].value

\* a file whose text holds the prefix in one of its spellings, and what becomes of the others
HeldPrefix(f) == f.utf8 /\ \E i \in 1..Len(f.text) : f.text[i] \in {PrefixNative, PrefixPosix}

OthersRelocated ==
    \A f \in pk.original :
        (HeldPrefix(f) /\ suffix_of(f.name) # ".pc") =>
            /\ ~\E g \in pk.archive : g.name = f.name
            /\ \E g \in pk.archive :
                    /\ g.name = f.name \o <<".frida.in">>
                    /\ g.text = replace(replace(f.text, PrefixNative, "@FRIDA_TOOLROOT@"),
                                        PrefixPosix, "@FRIDA_TOOLROOT@")

ManifestEntries(f) == split(strip(f.text), "\n", <<>>)

C23_LoadedForMachine ==
    mq.kind = "loaded" =>
        \A i \in DOMAIN mq.packages :
            /\ mq.packages[i].identifier = i
            /\ \A k \in DOMAIN mq.packages[i].dependencies :
                   mq.packages[i].dependencies[k].for_machine \in {"host", "build"}

\* the requests of wait() so far and where it stands
WaitPolls ==
    /\ \A k \in 1..Len(wt.requests) :
           /\ wt.requests[k].method = "HEAD"
           /\ wt.requests[k].url = compute_bundle_parameters(bundle, host_machine, params.deps_version).url
           /\ wt.requests[k].at = (k - 1) * 300
           /\ k < Len(wt.requests) => wt.answers[k] = "404"
    /\ wt.pc = "sleep" => wt.answers # <<>> /\ wt.answers[Len(wt.answers)] = "404"
    /\ wt.pc = "request" => \A k \in 1..Len(wt.answers) : wt.answers[k] = "404"
    /\ wt.pc = "returned" => wt.answers[Len(wt.answers)] \in {"200", "500"}
    /\ (wt.answers # <<>> /\ wt.answers[Len(wt.answers)] \in {"200", "500"}) => wt.pc = "returned"

\* C24: wait() sends HEAD requests for the bundle's URL, the k-th one 5 minutes after the one
\* before it, as long as the answer is 404; it returns on the first other response; and when
\* the server stops answering 404, wait() terminates
C24_WaitPollsUntilAnswered == []WaitPolls /\ <>(wt.pc \in {"returned", "raised"})

C24_Witness ==
    /\ wt.pc = "returned"
    /\ Len(wt.requests) = 3
    /\ wt.requests[3].at = 600
    /\ wt.answers = <<"404", "404", "500">>

\* C25 (as stated): with every declared dependency a key of the map of available packages,
\* whenever a selection (explicit ids, Toolchain or SDK) and an exclusion set reach the ordering
\* and the ordering finds no cycle, the identifiers it yields are the selected set after
\* exclusion, each once, and the list of packages is built without a lookup error
C25_OrderWithinSelection ==
    (rs.done /\ ~rs.out.selecting /\ rs.out.error # "CycleError"
        /\ \A p \in all_packages : dep_ids(p) \subseteq all_packages) =>
        /\ rs.out.error = "none"
        /\ Range(rs.out.order) = rs.out.selected
        /\ Len(rs.out.order) = Cardinality(rs.out.selected)

\* C25, the excluded dependency: b is selected, its dependency a is excluded
C25_ExcludedDependency ==
    (rs.done /\ params.packages = Packages /\ rs.only = [given |-> TRUE, ids |-> {"b"}]
        /\ rs.excluded = {"a"}) => rs.out.error = "none"

\* C25, the SDK selection with an unscoped package that needs a scoped one
C25_ScopedDependency ==
    (rs.done /\ params.packages = ScopedDepPackages /\ bundle = "SDK" /\ ~rs.only.given
        /\ rs.excluded = {}) => rs.out.error = "none"

CompileType(target) == target \notin {"distclean", "install", "test"}

\* the targets grouped as the claim groups them: every maximal run of compile-type targets is
\* one group, every other target is a group of its own
RECURSIVE Groups(_, _)
Groups(targets, run) ==
    IF targets = <<>> THEN (IF run = <<>> THEN <<>> ELSE <<run>>)
    ELSE IF CompileType(Head(targets)) THEN Groups(Tail(targets), Append(run, Head(targets)))
    ELSE (IF run = <<>> THEN <<>> ELSE <<run>>) \o <<(<<Head(targets)>>)>> \o Groups(Tail(targets), <<>>)

MakeInOrder ==
    LET groups == Groups(mk.targets, <<>>)
    IN /\ Len(mk.commands) = Len(groups)
       /\ \A i \in 1..Len(groups) :
              /\ mk.commands[i].serves = groups[i]
              /\ mk.commands[i].ok
              /\ mk.commands[i].argv[1] =
                     (IF CompileType(groups[i][1]) THEN "compile"
                      ELSE IF groups[i][1] = "distclean" THEN Callable[1]
                      ELSE groups[i][1])

CleanAlone ==
    \A i \in 1..Len(mk.commands) :
        (mk.commands[i].argv[1] = "compile" /\ "--clean" \in Range(mk.commands[i].argv)) =>
            \A k \in 1..Len(mk.commands[i].serves) : mk.commands[i].serves[k] = "clean"

\* C29 (as stated): when make(targets) returns, the commands it ran follow the order of the
\* targets, every maximal run of compile-type targets was exactly one `compile` invocation run
\* before the next install, test or distclean action, and no compile invocation carries --clean
\* together with the build request of another target
C29_MakeBatchesCompiles == mk.pc = "done" => (MakeInOrder /\ CleanAlone)

\* C29, the first two parts alone
C29_MakeInOrder == mk.pc = "done" => MakeInOrder

\* roll() builds or uploads only after a 404 from the public URL and exit status 1 from aws s3 ls
RollBuildsWhenAbsent ==
    (\E i \in 1..Len(rl.ran) : rl.ran[i] \in {"build", "post", "s3 cp", "cfcli purge"}) =>
        (rl.head = "404" /\ rl.s3 = 1)

\* C30 (as stated): roll() builds and uploads only when the bundle is absent at the public URL
\* (404) and in S3, and whenever roll() with activate = true returns normally, the stored
\* bootstrap_version equals deps_version, for the SDK and for the Toolchain, whether or not the
\* bundle was there already
C30_RollActivates ==
    /\ RollBuildsWhenAbsent
    /\ (rl.pc = "returned" /\ rl.activate) => rl.toml.bootstrap_version = params.deps_version

====
